---- MODULE Spec2Model ----
(***************************************************************************)
(* Model of src/app.py: the aggregation worker (fetch, statistics, dedup   *)
(* and windows, persist, snapshot replace, fanout), the incident log, the  *)
(* broadcaster with its subscriber sessions, and the polling routes.       *)
(*                                                                         *)
(* All tasks run on one cooperative scheduler.  The worker is modelled as  *)
(* a program counter `pc`; one action is one atomic block of the worker,   *)
(* from the resumption of an await to the next await that really suspends. *)
(* The other tasks (route handlers, subscriber sessions) take steps only   *)
(* while the worker is parked at such an await (SuspensionPoints).         *)
(*                                                                         *)
(* Numbers: prices and edit counts are integers; score, velocity and trust *)
(* are integers in thousandths (round(x, 3) * 1000).  Time is the tick     *)
(* number.                                                                 *)
(***************************************************************************)
EXTENDS Integers, Sequences, FiniteSets, TLC

VARIABLES
    profile,      \* the environment the run is explored under (see Profiles)
    tick,         \* number of loop iterations started; `now` of the current one
    pc,           \* worker position
    prices,       \* worker local: coin -> window of samples
    hn_seen,      \* worker local: set of HackerNews objectIDs
    reddit_seen,  \* worker local: set of Reddit ids
    wiki_vals,    \* worker local of the iteration
    narr,         \* worker local `narratives` of the iteration
    rows,         \* worker local `rows` of the iteration
    pend,         \* arguments of the log_incident call in progress
    ret,          \* where the worker continues when that call returns
    raised,       \* origin of the exception the handler caught in this iteration
    incidents,    \* state["incidents"]
    scores,       \* state["scores"]
    narratives,   \* state["narratives"]
    clients,      \* state["clients"]
    queues,       \* content of each asyncio.Queue
    sess,         \* each streaming session: "unused", "live", "cancelled"
    events,       \* events each session has yielded to its HTTP client
    db,           \* the durable tables: scores, narratives, incidents
    txn,          \* uncommitted inserts of the open connection
    rd,           \* response a polling route handler is returning
    http,         \* outcome of the most recent HTTP request
    failed,       \* sources whose fetch failed in the current iteration
    accepted,     \* history: every item appended to `narratives`, with its key
    sent,         \* history: every payload handed to broadcast
    regAt,        \* history: Len(sent) when each queue was registered
    fan,          \* history: registry and failing deliveries of the last broadcast
    fed,          \* history: every sample appended to each window, in order
    published,    \* history: every item added to state["narratives"], in order
    logged        \* history: every incident log_incident was called with, in order

vars == <<profile, tick, pc, prices, hn_seen, reddit_seen, wiki_vals, narr, rows,
          pend, ret, raised, incidents, scores, narratives, clients, queues, sess,
          events, db, txn, rd, http, failed, accepted, sent, regAt, fan, fed,
          published, logged>>

----------------------------------------------------------------------------
(* Bounds of the exploration *)

MaxTicks == 3
SoakTicks == 123
MaxClients == 2
StatsLen == 3

(* Program constants *)

WindowCap == 120
NarrativeCap == 50
IncidentCap == 100
HitLimit == 15
WikiTail == 10
ApiTail == 50
Milli == 1000

----------------------------------------------------------------------------
(* Sequences *)

LastN(s, n) == IF Len(s) <= n THEN s ELSE SubSeq(s, Len(s) - n + 1, Len(s))

FirstN(s, n) == IF Len(s) <= n THEN s ELSE SubSeq(s, 1, n)

RECURSIVE SumSeq(_)
SumSeq(s) == IF s = <<>> THEN 0 ELSE s[1] + SumSeq(Tail(s))

RECURSIVE SumSq(_)
SumSq(s) == IF s = <<>> THEN 0 ELSE s[1] * s[1] + SumSq(Tail(s))

Max2(a, b) == IF a >= b THEN a ELSE b

----------------------------------------------------------------------------
(* calc_stats, in thousandths *)

\* round(p / q, 3) * 1000 for q > 0 is RoundDiv(1000 * p, q): nearest integer,
\* a tie going to the even one.
RoundDiv(p, q) ==
    LET f == p \div q
        r == p % q
    IN  IF 2 * r < q THEN f
        ELSE IF 2 * r > q THEN f + 1
        ELSE IF f % 2 = 0 THEN f ELSE f + 1

\* Where b / a lies relative to sqrt(D), for a > 0 and b >= 0: it is above iff
\* D <= (b / a)^2.  With b = q a + r the floor of (b / a)^2 is
\* q^2 + (2 q r + r^2 \div a) \div a, which keeps every intermediate value
\* small; D stays below 2 * 10^9, which 46000^2 exceeds.
TrustCmp(a, b, D) ==
    LET q == b \div a
        r == b % a
    IN  IF q >= 46000 THEN "above"
        ELSE IF r = 0 /\ q * q = D THEN "tie"
        ELSE IF D <= q * q + (2 * q * r + (r * r) \div a) \div a THEN "above"
        ELSE "below"

\* Faulty variant: the third decimal is cut off instead of rounded:
\* 1000 / (1 + stdev) >= k iff k sqrt(D) <= (1000 - k) n.
TrustAtLeast_Truncates(k, n, D) ==
    k = 0 \/ TrustCmp(k, (Milli - k) * n, D) /= "below"

\* 1000 / (1 + stdev) rounds to k or more.  stdev = sqrt(D) / n with
\* D = n * sum(x^2) - sum(x)^2, so 1000 / (1 + stdev) >= k - 1/2 iff
\* (2k - 1) sqrt(D) <= (2001 - 2k) n.
TrustAtLeast(k, n, D) ==
    k = 0 \/ TrustCmp(2 * k - 1, (2 * Milli + 1 - 2 * k) * n, D) /= "below"

RECURSIVE TrustSearch(_, _, _, _)
TrustSearch(lo, hi, n, D) ==
    IF lo = hi THEN lo
    ELSE LET mid == (lo + hi + 1) \div 2
         IN  IF TrustAtLeast(mid, n, D)
             THEN TrustSearch(mid, hi, n, D)
             ELSE TrustSearch(lo, mid - 1, n, D)

\* On an exact tie round() decides by the binary value of the quotient, which
\* lies on either side of the tie; the model takes the even neighbour.
TrustMilli(n, D) ==
    IF D = 0 THEN Milli
    ELSE LET k == TrustSearch(0, Milli, n, D)
             tie == k > 0 /\ TrustCmp(2 * k - 1, (2 * Milli + 1 - 2 * k) * n, D) = "tie"
         IN  IF tie /\ k % 2 = 1 THEN k - 1 ELSE k

calc_stats(series) ==
    IF series = <<>> THEN [score |-> 0, velocity |-> 0, trust |-> 0]
    ELSE LET n == Len(series)
             sum == SumSeq(series)
             D == n * SumSq(series) - sum * sum
         IN  [score |-> RoundDiv(Milli * sum, n),
              velocity |-> RoundDiv(Milli * (series[n] - series[1]), Max2(n - 1, 1)),
              trust |-> TrustMilli(n, D)]

----------------------------------------------------------------------------
(* The environment: sources, payloads, profiles *)

Sources == {"cg", "wiki", "hn", "reddit", "news"}

Coins == <<"bitcoin", "ethereum">>

\* A field the payload does not have (.get falls back to its default), and a
\* value of the wrong type (the next .get or float() raises).
Missing == -1
Malformed == -2

\* A list element that is no dict: .get on it raises.
BadItem == "!"

Q == 1 .. MaxClients

\* Each run is explored under one profile.  The profile named after a source
\* lets that source answer in every way and keeps the others nominal; "db"
\* lets every store operation and the cg and hn requests fail; "subs" has streaming
\* clients; "soak" is a long run against a steady environment (prices
\* arrive, wiki, hn and reddit are down, news is configured); "stats" is one
\* tick whose wiki payload is any series of StatsSeries.
Profiles == {"cg", "wiki", "hn", "reddit", "news", "db", "subs", "soak", "stats"}

NEWSAPI_KEY == profile \in {"news", "soak"}

TickLimit ==
    IF profile = "soak" THEN SoakTicks
    ELSE IF profile = "stats" THEN 1
    ELSE IF profile = "subs" THEN MaxTicks - 1
    ELSE MaxTicks

CgBody(b, e) == [bitcoin |-> b, ethereum |-> e]

Hit(id, title, story) == [objectID |-> id, title |-> title, story_title |-> story]

Child(id, title) == [id |-> id, title |-> title]

HitA == Hit("a", "A", "")
HitB == Hit("b", "", "B")
BadHit == Hit(BadItem, BadItem, BadItem)

ChildX == Child("x", "X")
ChildY == Child("y", "Y")
BadChild == Child(BadItem, BadItem)

\* In the long run every price differs from the ones before it.
Nominal(src) ==
    CASE src = "cg" -> IF profile = "soak" THEN CgBody(tick, tick + 1) ELSE CgBody(1, 1)
      [] src = "wiki" -> <<3, 5>>
      [] src = "hn" -> <<HitA>>
      [] src = "reddit" -> <<ChildX>>
      [] src = "news" -> <<"N1">>

AllBodies(src) ==
    CASE src = "cg" ->
            {CgBody(1, 1), CgBody(2, 1), CgBody(1, 2), CgBody(Missing, 1),
             CgBody(1, Malformed), CgBody(Malformed, 1)}
      [] src = "wiki" ->
            {<<>>, <<3, 5>>, <<Missing, 4>>, <<3, Malformed>>,
             <<9, 1, 1, 1, 1, 1, 1, 1, 1, 1, 1>>}
      [] src = "hn" ->
            {<<>>, <<HitA>>, <<HitA, HitB>>, <<HitA, HitA>>,
             <<HitB, Hit("", "N", ""), Hit("c", "", "")>>, <<HitB, BadHit>>,
             [i \in 1 .. HitLimit + 1 |-> IF i <= HitLimit THEN HitA ELSE HitB]}
      [] src = "reddit" ->
            {<<>>, <<ChildX>>, <<ChildX, ChildY>>, <<ChildX, ChildX>>,
             <<ChildY, Child("", "N"), Child("z", "")>>, <<ChildY, BadChild>>}
      [] src = "news" ->
            {<<>>, <<"N1">>, <<"N1", "N2">>, <<"", "N2">>, <<"N2", BadItem>>}

\* What a request to src can come back with: "fail" (fetch_json's except
\* branch: network error, status, parse), "notdict" (JSON that is no
\* object), "dict".
Kinds(src) ==
    IF profile = src THEN {"fail", "notdict", "dict"}
    ELSE IF profile = "db" /\ src \in {"cg", "hn"} THEN {"fail", "dict"}
    ELSE IF profile = "soak" /\ src \in {"wiki", "hn", "reddit"} THEN {"fail"}
    ELSE {"dict"}

\* Edit counts near each other, and one far enough from them for a
\* standard deviation above 1999.
StatsValues == {0, 1, 2, 4 * Milli}

StatsSeries == UNION {[1 .. n -> StatsValues] : n \in 1 .. StatsLen}

Bodies(src) ==
    IF profile = src THEN AllBodies(src)
    ELSE IF profile = "stats" /\ src = "wiki" THEN StatsSeries
    ELSE {Nominal(src)}

\* Whether an operation on the sqlite file succeeds.
DbOutcomes == IF profile = "db" THEN {TRUE, FALSE} ELSE {TRUE}

\* Whether the connect and the inserts of the persist step succeed; they may
\* fail while clients are streaming, too.
InsertOutcomes == IF profile \in {"db", "subs"} THEN {TRUE, FALSE} ELSE {TRUE}

\* How many streaming clients connect.
Sessions == IF profile = "subs" THEN MaxClients ELSE 0

\* Queues whose put may raise in one broadcast.
PutFailures == IF profile = "subs" THEN SUBSET clients ELSE {{}}

----------------------------------------------------------------------------
(* The worker's processing of each payload (lines 111-154) *)

\* A result is [ok |-> FALSE, ...] when the loop raised; what it had already
\* changed by then stays changed.

\* Faulty variant: the slice keeps the head of the window.
WindowPush_KeepsOldest(w, v) == FirstN(Append(w, v), WindowCap)

\* Lines 114-115
WindowPush(w, v) == LastN(Append(w, v), WindowCap)

RECURSIVE CgLoop(_, _, _)
CgLoop(body, i, pr) ==
    IF i > Len(Coins) THEN [ok |-> TRUE, prices |-> pr]
    ELSE LET coin == Coins[i]
             v == body[coin]
         IN  IF v = Malformed THEN [ok |-> FALSE, prices |-> pr]
             ELSE CgLoop(body, i + 1,
                         [pr EXCEPT ![coin] =
                             WindowPush(@, IF v = Missing THEN 0 ELSE v)])

\* The samples line 114 appends, before line 115 slices the window.
RECURSIVE FedLoop(_, _, _)
FedLoop(body, i, fd) ==
    IF i > Len(Coins) THEN fd
    ELSE LET coin == Coins[i]
             v == body[coin]
         IN  IF v = Malformed THEN fd
             ELSE FedLoop(body, i + 1,
                          [fd EXCEPT ![coin] = Append(@, IF v = Missing THEN 0 ELSE v)])

RECURSIVE WikiLoop(_, _, _)
WikiLoop(items, i, vals) ==
    IF i > Len(items) THEN [ok |-> TRUE, vals |-> vals]
    ELSE IF items[i] = Malformed THEN [ok |-> FALSE, vals |-> vals]
    ELSE WikiLoop(items, i + 1,
                  Append(vals, IF items[i] = Missing THEN 0 ELSE items[i]))

NarrativeItem(title, source) == [title |-> title, source |-> source, t |-> tick]

Accepted(source, key) == [source |-> source, key |-> key, t |-> tick]

\* Faulty variant: the membership test is left out.
Fresh_IgnoresSeen(id, title, seen) == id /= "" /\ title /= ""

\* `nid and title and nid not in hn_seen`
Fresh(id, title, seen) == id /= "" /\ title /= "" /\ id \notin seen

HitTitle(hit) ==
    IF hit.title /= "" THEN hit.title
    ELSE IF hit.story_title /= "" THEN hit.story_title
    ELSE ""

RECURSIVE HnLoop(_, _, _)
HnLoop(hits, i, st) ==
    IF i > Len(hits) THEN st
    ELSE IF hits[i] = BadHit THEN [st EXCEPT !.ok = FALSE]
    ELSE LET nid == hits[i].objectID
             title == HitTitle(hits[i])
         IN  IF Fresh(nid, title, st.seen)
             THEN HnLoop(hits, i + 1,
                         [ok |-> TRUE,
                          seen |-> st.seen \cup {nid},
                          narr |-> Append(st.narr, NarrativeItem(title, "HackerNews")),
                          acc |-> Append(st.acc, Accepted("HackerNews", nid))])
             ELSE HnLoop(hits, i + 1, st)

RECURSIVE RedditLoop(_, _, _)
RedditLoop(children, i, st) ==
    IF i > Len(children) THEN st
    ELSE IF children[i] = BadChild THEN [st EXCEPT !.ok = FALSE]
    ELSE LET rid == children[i].id
             title == children[i].title
         IN  IF Fresh(rid, title, st.seen)
             THEN RedditLoop(children, i + 1,
                         [ok |-> TRUE,
                          seen |-> st.seen \cup {rid},
                          narr |-> Append(st.narr,
                                          NarrativeItem(title, "Reddit/technology")),
                          acc |-> Append(st.acc, Accepted("Reddit/technology", rid))])
             ELSE RedditLoop(children, i + 1, st)

\* NewsAPI articles carry no identifier: the title is all that identifies one.
RECURSIVE NewsLoop(_, _, _)
NewsLoop(articles, i, st) ==
    IF i > Len(articles) THEN st
    ELSE IF articles[i] = BadItem THEN [st EXCEPT !.ok = FALSE]
    ELSE IF articles[i] /= ""
         THEN NewsLoop(articles, i + 1,
                       [ok |-> TRUE,
                        narr |-> Append(st.narr, NarrativeItem(articles[i], "NewsAPI")),
                        acc |-> Append(st.acc, Accepted("NewsAPI", articles[i]))])
         ELSE NewsLoop(articles, i + 1, st)

(* Scores (lines 157-163, 176) *)

Row(name, series) ==
    LET st == calc_stats(series)
    IN  [name |-> name, score |-> st.score, velocity |-> st.velocity,
         trust |-> st.trust, ts |-> tick]

ComputeRows ==
    <<Row("bitcoin", prices["bitcoin"]), Row("ethereum", prices["ethereum"])>>
        \o (IF wiki_vals /= <<>> THEN <<Row("wikipedia_edits", wiki_vals)>> ELSE <<>>)

\* Faulty variant: a row goes in front of the rows of equal score.
RECURSIVE InsertDesc_Unstable(_, _)
InsertDesc_Unstable(sorted, r) ==
    IF sorted = <<>> THEN <<r>>
    ELSE IF Head(sorted).score > r.score
         THEN <<Head(sorted)>> \o InsertDesc_Unstable(Tail(sorted), r)
         ELSE <<r>> \o sorted

\* sorted(rows, key=score, reverse=True): stable, equal scores keep their order.
RECURSIVE InsertDesc(_, _)
InsertDesc(sorted, r) ==
    IF sorted = <<>> THEN <<r>>
    ELSE IF Head(sorted).score >= r.score
         THEN <<Head(sorted)>> \o InsertDesc(Tail(sorted), r)
         ELSE <<r>> \o sorted

RECURSIVE SortDesc(_)
SortDesc(rs) ==
    IF rs = <<>> THEN <<>>
    ELSE InsertDesc(SortDesc(SubSeq(rs, 1, Len(rs) - 1)), rs[Len(rs)])

----------------------------------------------------------------------------
(* State after startup: on_start has run db_init and started the worker,    *)
(* which is parked at its first fetch.                                      *)

NoPend == [kind |-> "none", message |-> "none", t |-> 0]

NoRd == [route |-> "none", data |-> <<>>]

NoTxn == [scores |-> <<>>, narratives |-> <<>>]

Init ==
    /\ profile \in Profiles
    /\ tick = 1
    /\ pc = "fetch_cg"
    /\ prices = [c \in {"bitcoin", "ethereum"} |-> <<>>]
    /\ hn_seen = {}
    /\ reddit_seen = {}
    /\ wiki_vals = <<>>
    /\ narr = <<>>
    /\ rows = <<>>
    /\ pend = NoPend
    /\ ret = "none"
    /\ raised = "none"
    /\ incidents = <<>>
    /\ scores = <<>>
    /\ narratives = <<>>
    /\ clients = {}
    /\ queues = [q \in Q |-> <<>>]
    /\ sess = [q \in Q |-> "unused"]
    /\ events = [q \in Q |-> <<>>]
    /\ db = [scores |-> <<>>, narratives |-> <<>>, incidents |-> <<>>]
    /\ txn = NoTxn
    /\ rd = NoRd
    /\ http = [src |-> "none", kind |-> "none"]
    /\ failed = {}
    /\ accepted = <<>>
    /\ sent = <<>>
    /\ regAt = [q \in Q |-> 0]
    /\ fan = [before |-> {}, bad |-> {}]
    /\ fed = [c \in {"bitcoin", "ethereum"} |-> <<>>]
    /\ published = <<>>
    /\ logged = <<>>

locals == <<prices, fed, hn_seen, reddit_seen, wiki_vals, narr, rows>>
snapshots == <<scores, narratives, published>>
registry == <<clients, queues, sent, fan>>
sessions == <<sess, events, regAt>>
store == <<db, txn>>
logcall == <<pend, ret, raised, incidents, logged>>

\* No route handler is between its read and its return.
Idle == rd = NoRd

\* Faulty variant: log_incident awaits between its append and its slice.
SuspensionPoints_AwaitInLog ==
    {"fetch_cg", "fetch_wiki", "fetch_hn", "fetch_reddit", "fetch_news",
     "persist", "commit", "log_trim", "log_db", "sleep", "dead"}

\* The awaits at which the worker really suspends: the HTTP requests, the
\* sqlite operations, the sleep.  A finished task stays finished.
SuspensionPoints ==
    {"fetch_cg", "fetch_wiki", "fetch_hn", "fetch_reddit", "fetch_news",
     "persist", "commit", "log_db", "sleep", "dead"}

PcOf(src) ==
    CASE src = "cg" -> "fetch_cg"
      [] src = "wiki" -> "fetch_wiki"
      [] src = "hn" -> "fetch_hn"
      [] src = "reddit" -> "fetch_reddit"
      [] src = "news" -> "fetch_news"

After(src) ==
    CASE src = "cg" -> "fetch_wiki"
      [] src = "wiki" -> "fetch_hn"
      [] src = "hn" -> "fetch_reddit"
      [] src = "reddit" -> IF NEWSAPI_KEY THEN "fetch_news" ELSE "compute"
      [] src = "news" -> "compute"

----------------------------------------------------------------------------
(* log_incident (lines 71-77) *)

Incident(kind, message) == [kind |-> kind, message |-> message, t |-> tick]

\* Faulty variant: the slice keeps the oldest incidents.
TrimTail_KeepsOldest(tail) == FirstN(tail, IncidentCap)

\* line 74
TrimTail(tail) == LastN(tail, IncidentCap)

\* Lines 72-73: the call appends in place; the slice of line 74 is LogTrim.
LogIncident(kind, message, retpc) ==
    /\ incidents' = Append(incidents, Incident(kind, message))
    /\ logged' = Append(logged, Incident(kind, message))
    /\ pend' = Incident(kind, message)
    /\ ret' = retpc
    /\ pc' = "log_trim"

\* Faulty variant: the try block ends with the persist step, and the tick
\* goes on to publish after the handler.
Handled_GoesOn == "push_scores"

\* Where the worker continues after the handler: the except clause closes
\* the whole iteration, the sleep follows (lines 182-185).
Handled == "sleep"

\* `except Exception as e: await log_incident("loop_error", str(e))`, then the
\* sleep (lines 182-185).
Raise(origin) ==
    /\ raised' = origin
    /\ LogIncident("loop_error", origin, Handled)

LogTrim ==
    /\ Idle
    /\ pc = "log_trim"
    /\ incidents' = TrimTail(incidents)
    /\ pc' = "log_db"
    /\ UNCHANGED <<profile, tick, locals, pend, ret, raised, logged, snapshots, registry,
                   sessions, store, rd, http, failed, accepted>>

\* Lines 75-77.  When the insert fails, the exception leaves log_incident:
\* out of fetch_json into the worker's handler, or, raised in the handler
\* itself, out of the worker, whose task ends.
LogDb ==
    /\ Idle
    /\ pc = "log_db"
    /\ \E ok \in DbOutcomes :
        \/ /\ ok
           /\ db' = [db EXCEPT !.incidents = Append(@, pend)]
           /\ pc' = ret
           /\ UNCHANGED logcall
        \/ /\ ~ok
           /\ pend.kind = "fetch_error"
           /\ Raise("fetch_json")
           /\ UNCHANGED db
        \/ /\ ~ok
           /\ pend.kind = "loop_error"
           /\ pc' = "dead"
           /\ UNCHANGED <<db, logcall>>
    /\ UNCHANGED <<profile, tick, locals, snapshots, registry, sessions, txn, rd,
                   http, failed, accepted>>

----------------------------------------------------------------------------
(* fetch_json and the worker's handling of each source (lines 50-58, 110-154) *)

\* wiki_vals and narratives are re-created after the wiki and hn requests.
Recreate(src) ==
    /\ wiki_vals' = IF src = "wiki" THEN <<>> ELSE wiki_vals
    /\ narr' = IF src = "hn" THEN <<>> ELSE narr

\* The request raised, or raise_for_status or r.json() did: fetch_json logs a
\* fetch_error and returns None, and the isinstance test skips the source.
FetchFail ==
    \E src \in Sources :
        /\ Idle
        /\ pc = PcOf(src)
        /\ "fail" \in Kinds(src)
        /\ http' = [src |-> src, kind |-> "fail"]
        /\ failed' = failed \cup {src}
        /\ LogIncident("fetch_error", src, After(src))
        /\ Recreate(src)
        /\ UNCHANGED <<profile, tick, prices, fed, hn_seen, reddit_seen, rows, raised,
                       snapshots, registry, sessions, store, rd, accepted>>

\* r.json() is no dict: fetch_json returns it, the isinstance test skips it.
FetchNotDict ==
    \E src \in Sources :
        /\ Idle
        /\ pc = PcOf(src)
        /\ "notdict" \in Kinds(src)
        /\ http' = [src |-> src, kind |-> "notdict"]
        /\ pc' = After(src)
        /\ Recreate(src)
        /\ UNCHANGED <<profile, tick, prices, fed, hn_seen, reddit_seen, rows, logcall,
                       snapshots, registry, sessions, store, rd, failed, accepted>>

FetchCg ==
    /\ Idle
    /\ pc = "fetch_cg"
    /\ "dict" \in Kinds("cg")
    /\ \E body \in Bodies("cg") :
        LET r == CgLoop(body, 1, prices)
        IN  /\ prices' = r.prices
            /\ fed' = FedLoop(body, 1, fed)
            /\ IF r.ok THEN pc' = "fetch_wiki" /\ UNCHANGED logcall
                       ELSE Raise("payload")
    /\ http' = [src |-> "cg", kind |-> "dict"]
    /\ UNCHANGED <<profile, tick, hn_seen, reddit_seen, wiki_vals, narr, rows,
                   snapshots, registry, sessions, store, rd, failed, accepted>>

FetchWiki ==
    /\ Idle
    /\ pc = "fetch_wiki"
    /\ "dict" \in Kinds("wiki")
    /\ \E body \in Bodies("wiki") :
        LET r == WikiLoop(LastN(body, WikiTail), 1, <<>>)
        IN  /\ wiki_vals' = r.vals
            /\ IF r.ok THEN pc' = "fetch_hn" /\ UNCHANGED logcall
                       ELSE Raise("payload")
    /\ http' = [src |-> "wiki", kind |-> "dict"]
    /\ UNCHANGED <<profile, tick, prices, fed, hn_seen, reddit_seen, narr, rows,
                   snapshots, registry, sessions, store, rd, failed, accepted>>

FetchHn ==
    /\ Idle
    /\ pc = "fetch_hn"
    /\ "dict" \in Kinds("hn")
    /\ \E body \in Bodies("hn") :
        LET r == HnLoop(FirstN(body, HitLimit), 1,
                        [ok |-> TRUE, seen |-> hn_seen, narr |-> <<>>, acc |-> accepted])
        IN  /\ hn_seen' = r.seen
            /\ narr' = r.narr
            /\ accepted' = r.acc
            /\ IF r.ok THEN pc' = "fetch_reddit" /\ UNCHANGED logcall
                       ELSE Raise("payload")
    /\ http' = [src |-> "hn", kind |-> "dict"]
    /\ UNCHANGED <<profile, tick, prices, fed, reddit_seen, wiki_vals, rows,
                   snapshots, registry, sessions, store, rd, failed>>

FetchReddit ==
    /\ Idle
    /\ pc = "fetch_reddit"
    /\ "dict" \in Kinds("reddit")
    /\ \E body \in Bodies("reddit") :
        LET r == RedditLoop(body, 1,
                     [ok |-> TRUE, seen |-> reddit_seen, narr |-> narr, acc |-> accepted])
        IN  /\ reddit_seen' = r.seen
            /\ narr' = r.narr
            /\ accepted' = r.acc
            /\ IF r.ok THEN pc' = After("reddit") /\ UNCHANGED logcall
                       ELSE Raise("payload")
    /\ http' = [src |-> "reddit", kind |-> "dict"]
    /\ UNCHANGED <<profile, tick, prices, fed, hn_seen, wiki_vals, rows,
                   snapshots, registry, sessions, store, rd, failed>>

FetchNews ==
    /\ Idle
    /\ pc = "fetch_news"
    /\ "dict" \in Kinds("news")
    /\ \E body \in Bodies("news") :
        LET r == NewsLoop(body, 1, [ok |-> TRUE, narr |-> narr, acc |-> accepted])
        IN  /\ narr' = r.narr
            /\ accepted' = r.acc
            /\ IF r.ok THEN pc' = "compute" /\ UNCHANGED logcall
                       ELSE Raise("payload")
    /\ http' = [src |-> "news", kind |-> "dict"]
    /\ UNCHANGED <<profile, tick, prices, fed, hn_seen, reddit_seen, wiki_vals, rows,
                   snapshots, registry, sessions, store, rd, failed>>

----------------------------------------------------------------------------
(* Scores, persist, publish (lines 156-180) *)

Compute ==
    /\ Idle
    /\ pc = "compute"
    /\ rows' = ComputeRows
    /\ pc' = "persist"
    /\ UNCHANGED <<profile, tick, prices, fed, hn_seen, reddit_seen, wiki_vals, narr,
                   logcall, snapshots, registry, sessions, store, rd, http, failed,
                   accepted>>

\* Lines 166-172: connect and the inserts, which stay uncommitted.
Persist ==
    /\ Idle
    /\ pc = "persist"
    /\ \E ok \in InsertOutcomes :
        IF ok
        THEN /\ txn' = [scores |-> rows, narratives |-> narr]
             /\ pc' = "commit"
             /\ UNCHANGED logcall
        ELSE /\ txn' = NoTxn
             /\ Raise("persist")
    /\ UNCHANGED <<profile, tick, locals, snapshots, registry, sessions, db, rd,
                   http, failed, accepted>>

\* Faulty variant: commit is never called; closing the connection rolls back.
Durable_NoCommit(d, t) == d

\* Faulty variant: the commit covers the score inserts only.
Durable_ScoresOnly(d, t) == [d EXCEPT !.scores = @ \o t.scores]

\* What a commit makes durable.
Durable(d, t) ==
    [d EXCEPT !.scores = @ \o t.scores, !.narratives = @ \o t.narratives]

\* Line 173; a failed commit leaves the connection, which rolls back.
Commit ==
    /\ Idle
    /\ pc = "commit"
    /\ \E ok \in DbOutcomes :
        IF ok
        THEN /\ db' = Durable(db, txn)
             /\ pc' = "push_scores"
             /\ UNCHANGED logcall
        ELSE /\ db' = db
             /\ Raise("persist")
    /\ txn' = NoTxn
    /\ UNCHANGED <<profile, tick, locals, snapshots, registry, sessions, rd, http,
                   failed, accepted>>

(* broadcast (lines 87-95) *)

\* Faulty variant: no try around the put, the first failure ends the loop.
Deliver_AbortOnFailure(qs, cl, payload, bad) ==
    IF bad /= {} THEN qs
    ELSE [q \in Q |-> IF q \in cl THEN Append(qs[q], payload) ELSE qs[q]]

\* `bad` are the queues whose put raises.
Deliver(qs, cl, payload, bad) ==
    [q \in Q |-> IF q \in cl \ bad THEN Append(qs[q], payload) ELSE qs[q]]

\* Faulty variant: the dead queues are collected and not discarded.
Prune_KeepsDead(cl, bad) == cl

Prune(cl, bad) == cl \ bad

Broadcast(payload) ==
    \E bad \in PutFailures :
        /\ queues' = Deliver(queues, clients, payload, bad)
        /\ clients' = Prune(clients, bad)
        /\ sent' = Append(sent, payload)
        /\ fan' = [before |-> clients, bad |-> bad]

Payload(type, data) == [type |-> type, data |-> data]

\* Faulty variant: the narratives snapshot is fanned out on every tick.
NarrativesProduced_Always == TRUE

\* `if narratives:` (line 177)
NarrativesProduced == narr /= <<>>

\* Line 176 and push_scores (lines 79-81).
PushScores ==
    /\ Idle
    /\ pc = "push_scores"
    /\ scores' = SortDesc(rows)
    /\ Broadcast(Payload("scores", scores'))
    /\ pc' = IF NarrativesProduced THEN "push_narr" ELSE "sleep"
    /\ UNCHANGED <<profile, tick, locals, logcall, narratives, published, sessions, store, rd,
                   http, failed, accepted>>

\* Faulty variant: the slice keeps the oldest items.
KeepLatest_KeepsOldest(old, new) == FirstN(old \o new, NarrativeCap)

\* Line 179
KeepLatest(old, new) == LastN(old \o new, NarrativeCap)

\* Lines 177-180 and push_narratives (lines 83-85).
PushNarr ==
    /\ Idle
    /\ pc = "push_narr"
    /\ narratives' = KeepLatest(narratives, narr)
    /\ published' = published \o narr
    /\ Broadcast(Payload("narratives", narratives'))
    /\ pc' = "sleep"
    /\ UNCHANGED <<profile, tick, locals, logcall, scores, sessions, store, rd,
                   http, failed, accepted>>

\* Line 185, then the top of the loop: now = time.time().
Sleep ==
    /\ Idle
    /\ pc = "sleep"
    /\ tick < TickLimit
    /\ tick' = tick + 1
    /\ failed' = {}
    /\ raised' = "none"
    /\ pc' = "fetch_cg"
    /\ UNCHANGED <<profile, locals, pend, ret, incidents, logged, snapshots, registry,
                   sessions, store, rd, http, accepted>>

----------------------------------------------------------------------------
(* The other tasks: they run while the worker is parked at an await *)

Parked == Idle /\ pc \in SuspensionPoints

\* stream (lines 208-219): a new queue joins the registry.
Stream ==
    /\ Parked
    /\ \E q \in Q :
        /\ q <= Sessions
        /\ sess[q] = "unused"
        /\ \A p \in Q : p < q => sess[p] /= "unused"
        /\ sess' = [sess EXCEPT ![q] = "live"]
        /\ clients' = clients \cup {q}
        /\ regAt' = [regAt EXCEPT ![q] = Len(sent)]
    /\ UNCHANGED <<profile, tick, pc, locals, logcall, snapshots, queues, events,
                   sent, fan, store, rd, http, failed, accepted>>

\* gen (lines 210-214): one get, one event yielded.
Gen ==
    /\ Parked
    /\ \E q \in Q :
        /\ sess[q] = "live"
        /\ queues[q] /= <<>>
        /\ events' = [events EXCEPT ![q] =
                         Append(@, [event |-> "update", data |-> Head(queues[q])])]
        /\ queues' = [queues EXCEPT ![q] = Tail(@)]
    /\ UNCHANGED <<profile, tick, pc, locals, logcall, snapshots, clients, sess,
                   regAt, sent, fan, store, rd, http, failed, accepted>>

\* The client disconnects: gen gets CancelledError and returns (lines 215-216).
Cancel ==
    /\ Parked
    /\ \E q \in Q :
        /\ sess[q] = "live"
        /\ sess' = [sess EXCEPT ![q] = "cancelled"]
    /\ UNCHANGED <<profile, tick, pc, locals, logcall, snapshots, clients, queues,
                   events, regAt, sent, fan, store, rd, http, failed, accepted>>

\* The polling routes (lines 196-206).  A handler has no await: nothing runs
\* between its read and its return (Respond).
Read(route, data) ==
    /\ Parked
    /\ rd' = [route |-> route, data |-> data]
    /\ UNCHANGED <<profile, tick, pc, locals, logcall, snapshots, registry,
                   sessions, store, http, failed, accepted>>

api_scores == Read("scores", scores)

api_narratives == Read("narratives", LastN(narratives, ApiTail))

api_incidents == Read("incidents", LastN(incidents, ApiTail))

Respond ==
    /\ rd /= NoRd
    /\ rd' = NoRd
    /\ UNCHANGED <<profile, tick, pc, locals, logcall, snapshots, registry,
                   sessions, store, http, failed, accepted>>

Next ==
    \/ FetchFail \/ FetchNotDict
    \/ FetchCg \/ FetchWiki \/ FetchHn \/ FetchReddit \/ FetchNews
    \/ Compute \/ Persist \/ Commit \/ PushScores \/ PushNarr \/ Sleep
    \/ LogTrim \/ LogDb
    \/ Stream \/ Gen \/ Cancel
    \/ api_scores \/ api_narratives \/ api_incidents \/ Respond

Spec == Init /\ [][Next]_vars

----------------------------------------------------------------------------
(* Claims *)

FetchPcs == {PcOf(src) : src \in Sources}

LoopErrorsOfTick ==
    {i \in DOMAIN incidents : incidents[i].kind = "loop_error" /\ incidents[i].t = tick}

\* C1: when a step of a tick raises, whatever the cause and whatever the state
\* of the store, exactly one loop_error incident of that tick is recorded and
\* the worker is in its handler or at its sleep: its task never ends.
C1_TickFailureContained ==
    raised /= "none" =>
        /\ pc \in {"log_trim", "log_db", "sleep"}
        /\ Cardinality(LoopErrorsOfTick) = 1

\* C2: fetch_json never raises to its caller, whatever the request did and
\* whatever the state of the store that records the incident.
C2_FetchJsonNeverRaises == raised /= "fetch_json"

\* C3: a fetch that fails (network, status, parse, or a payload that parses
\* but is not of the expected shape) hands the worker no data and appends
\* exactly one fetch_error incident; a fetch that succeeds appends none.
C3_FailedFetchLogged ==
    [][(pc \in FetchPcs /\ pc' /= pc) =>
          IF http'.kind \in {"fail", "notdict"}
          THEN /\ incidents' = Append(incidents, Incident("fetch_error", http'.src))
               /\ UNCHANGED <<prices, hn_seen, reddit_seen, accepted>>
          ELSE \/ incidents' = incidents
               \/ incidents'[Len(incidents')].kind /= "fetch_error"]_vars

\* The feeds and the narrative tag of each source.
FeedsOf(src) ==
    CASE src = "cg" -> {"bitcoin", "ethereum"}
      [] src = "wiki" -> {"wikipedia_edits"}
      [] OTHER -> {}

TagOf(src) ==
    CASE src = "hn" -> "HackerNews"
      [] src = "reddit" -> "Reddit/technology"
      [] src = "news" -> "NewsAPI"
      [] OTHER -> "none"

NoSampleOfTick(rs, src) ==
    \A i \in DOMAIN rs : rs[i].ts = tick => rs[i].name \notin FeedsOf(src)

NoItemOfTick(ns, src) ==
    \A i \in DOMAIN ns : ns[i].t = tick => ns[i].source /= TagOf(src)

\* C4: a source whose fetch failed in a tick has no ScoreSample and no
\* NarrativeItem of that tick produced, persisted or published.
C4_FailedSourceOmitted ==
    \A src \in failed :
        /\ NoSampleOfTick(rows, src)
        /\ NoSampleOfTick(db.scores, src)
        /\ NoSampleOfTick(scores, src)
        /\ NoItemOfTick(narr, src)
        /\ NoItemOfTick(db.narratives, src)
        /\ NoItemOfTick(narratives, src)

\* C5 (state part): no identifier of HackerNews or Reddit was accepted twice.
C5_OncePerId ==
    \A i, j \in DOMAIN accepted :
        (/\ i < j
         /\ accepted[i].source = accepted[j].source
         /\ accepted[i].source \in {"HackerNews", "Reddit/technology"})
            => accepted[i].key /= accepted[j].key

\* C5 (step part): the seen-sets only grow, and an item is accepted only if
\* its identifier was not in its source's seen-set, to which it is added.
C5_DedupStep ==
    /\ hn_seen \subseteq hn_seen'
    /\ reddit_seen \subseteq reddit_seen'
    /\ \A k \in (Len(accepted) + 1) .. Len(accepted') :
          LET a == accepted'[k]
          IN  /\ a.source = "HackerNews" => (a.key \notin hn_seen /\ a.key \in hn_seen')
              /\ a.source = "Reddit/technology" =>
                     (a.key \notin reddit_seen /\ a.key \in reddit_seen')

\* C5: over any sequence of ticks, failing ones and ones without the source
\* included, each HackerNews or Reddit identifier leads to at most one
\* accepted NarrativeItem; acceptance requires the identifier to be absent
\* from the seen-set and adds it; the seen-sets only grow.
C5_DedupOncePerIdentifier == [](C5_OncePerId) /\ [][C5_DedupStep]_vars

\* Under profile "db" HackerNews answers <<HitA>> or fails: "a" accepted in
\* tick 1, the source down in tick 2, "a" returned again in tick 3, dropped.
C5_Witness ==
    /\ profile = "db"
    /\ tick = 3
    /\ pc = "fetch_reddit"
    /\ http = [src |-> "hn", kind |-> "dict"]
    /\ \E i \in DOMAIN incidents :
          incidents[i] = [kind |-> "fetch_error", message |-> "hn", t |-> 2]
    /\ \E i \in DOMAIN accepted :
          accepted[i] = [source |-> "HackerNews", key |-> "a", t |-> 1]
    /\ \A i \in DOMAIN accepted :
          accepted[i].source = "HackerNews" => accepted[i].t = 1

SameTitleLaterTick(ns) ==
    \E i, j \in DOMAIN ns :
        /\ ns[i].source = ns[j].source
        /\ ns[i].source = "NewsAPI"
        /\ ns[i].title = ns[j].title
        /\ ns[i].t /= ns[j].t

\* C6: every item feed, the keyed one included, goes through Dedup: an item
\* accepted in an earlier tick is not appended to the narratives snapshot,
\* persisted or broadcast again when its feed returns it in a later tick.
C6_EveryFeedDeduplicated ==
    /\ C5_OncePerId
    /\ ~SameTitleLaterTick(narratives)
    /\ ~SameTitleLaterTick(db.narratives)

\* C7: a cancelled session's queue is out of the registry once the next
\* fanout has run.
C7_CancelledSessionPruned ==
    [][Len(sent') > Len(sent) =>
          \A q \in Q : sess[q] = "cancelled" => q \notin clients']_vars

\* What a session's queue has been handed: the events it yielded, then what
\* is still queued.
Received(q) == [i \in 1 .. Len(events[q]) |-> events[q][i].data] \o queues[q]

\* C8: every registered subscriber has received exactly the payloads fanned
\* out since it registered, once each and in the order produced (so two
\* subscribers of one fanout hold the identical payload); a narratives
\* payload directly follows the scores payload of its tick, and the scores
\* payloads are in tick order.
C8_InOrderExactlyOnce ==
    /\ \A q \in clients : Received(q) = SubSeq(sent, regAt[q] + 1, Len(sent))
    /\ \A i \in DOMAIN sent :
          sent[i].type = "narratives" =>
              /\ i > 1
              /\ sent[i - 1].type = "scores"
              /\ sent[i - 1].data[1].ts = sent[i].data[Len(sent[i].data)].t
    /\ \A i, j \in DOMAIN sent :
          (i < j /\ sent[i].type = "scores" /\ sent[j].type = "scores")
              => sent[i].data[1].ts < sent[j].data[1].ts

C8_Witness ==
    /\ clients = {1, 2}
    /\ Len(events[1]) >= 2
    /\ Len(Received(1)) >= 3
    /\ Len(Received(2)) >= 1
    /\ Received(2)[Len(Received(2))] = Received(1)[Len(Received(1))]
    /\ regAt[1] < regAt[2]

\* C9: in one broadcast, the queues whose put raised are out of the registry
\* when it returns and got nothing, every other queue registered at its start
\* got the payload and stays registered, and nothing is raised into the worker.
C9_FailedDeliveryPruned ==
    [][Len(sent') > Len(sent) =>
          /\ fan'.before = clients
          /\ clients' = clients \ fan'.bad
          /\ \A q \in clients \ fan'.bad :
                queues'[q] = Append(queues[q], sent'[Len(sent')])
          /\ \A q \in Q \ (clients \ fan'.bad) : queues'[q] = queues[q]
          /\ raised' = raised
          /\ pc' \in {"push_narr", "sleep"}]_vars

C9_Witness ==
    /\ fan.bad /= {}
    /\ fan.before \ fan.bad /= {}
    /\ clients = fan.before \ fan.bad
    /\ \A q \in clients : queues[q] /= <<>> /\ queues[q][Len(queues[q])] = sent[Len(sent)]

OneTick(rs) == \A i, j \in DOMAIN rs : rs[i].ts = rs[j].ts

\* C10: a route handler runs only while the worker is parked at an await, so
\* what it reads is a container as an update left it: never the incidents
\* list between its append and its slice (more than 100 entries), never more
\* than 50 narratives, and a scores snapshot whose rows are all of one tick.
C10_ReaderSeesWholeContainers ==
    rd /= NoRd =>
        /\ pc /= "log_trim"
        /\ Len(incidents) <= IncidentCap
        /\ Len(narratives) <= NarrativeCap
        /\ OneTick(scores)
        /\ rd.route = "scores" => rd.data = scores
        /\ rd.route = "narratives" => rd.data = LastN(narratives, ApiTail)
        /\ rd.route = "incidents" => rd.data = LastN(incidents, ApiTail)

\* A read right after log_incident updated a full tail, and with the
\* narratives snapshot full.
C10_Witness ==
    /\ rd.route = "incidents"
    /\ pc = "log_db"
    /\ Len(incidents) = IncidentCap
    /\ Len(db.incidents) > IncidentCap
    /\ Len(narratives) = NarrativeCap

Min2(a, b) == IF a <= b THEN a ELSE b

\* C11: the window of each price feed holds at most 120 samples, and they are
\* the most recent min(n, 120) of the n samples appended to it, in arrival
\* order; once more than 120 were appended its length is exactly 120.
C11_WindowIsRecentSamples ==
    \A c \in DOMAIN prices :
        LET w == prices[c]
            n == Len(fed[c])
        IN  /\ Len(w) <= WindowCap
            /\ Len(w) = Min2(n, WindowCap)
            /\ \A i \in DOMAIN w : w[i] = fed[c][n - Len(w) + i]
            /\ n > WindowCap => Len(w) = WindowCap

\* More than 120 distinct samples arrived; the oldest have left the window.
C11_Witness ==
    /\ Len(fed["bitcoin"]) > WindowCap
    /\ Len(prices["bitcoin"]) = WindowCap
    /\ prices["bitcoin"][1] /= fed["bitcoin"][1]
    /\ prices["bitcoin"][WindowCap] = fed["bitcoin"][Len(fed["bitcoin"])]
    /\ prices["bitcoin"][1] /= prices["bitcoin"][WindowCap]

\* C12: the narratives snapshot never holds more than 50 items; it is the last
\* min(n, 50) of the n items published so far, in the order they were
\* accepted, and when a tick that accepted items has completed, those items
\* are the newest ones published.
C12_SnapshotIsLatestItems ==
    LET n == Len(published)
    IN  /\ Len(narratives) <= NarrativeCap
        /\ Len(narratives) = Min2(n, NarrativeCap)
        /\ \A i \in DOMAIN narratives :
              narratives[i] = published[n - Len(narratives) + i]
        /\ (pc = "sleep" /\ raised = "none" /\ narr /= <<>>) =>
              /\ Len(narr) <= n
              /\ \A i \in DOMAIN narr : published[n - Len(narr) + i] = narr[i]

\* A tick has just published an item into a full snapshot.
C12_Witness ==
    /\ pc = "sleep"
    /\ raised = "none"
    /\ narr /= <<>>
    /\ Len(published) > NarrativeCap
    /\ Len(narratives) = NarrativeCap
    /\ narratives[1] /= published[1]
    /\ narratives[NarrativeCap] = narr[Len(narr)]

\* C13: whenever no log_incident call is between its append and its slice,
\* the in-memory incidents tail holds at most 100 entries and is the last
\* min(n, 100) of the n incidents logged so far, fetch_error and loop_error
\* alike, in the order they were logged.
C13_TailIsLatestIncidents ==
    pc /= "log_trim" =>
        LET n == Len(logged)
        IN  /\ Len(incidents) <= IncidentCap
            /\ Len(incidents) = Min2(n, IncidentCap)
            /\ \A i \in DOMAIN incidents :
                  incidents[i] = logged[n - Len(incidents) + i]

\* More than 100 incidents were logged and the oldest have left the tail.
C13_Witness ==
    /\ pc /= "log_trim"
    /\ Len(logged) > IncidentCap
    /\ Len(incidents) = IncidentCap
    /\ incidents[1] /= logged[1]
    /\ incidents[IncidentCap] = logged[Len(logged)]

FeedRank(name) ==
    CASE name = "bitcoin" -> 1
      [] name = "ethereum" -> 2
      [] name = "wikipedia_edits" -> 3

\* C14: when a tick has completed, the scores snapshot consists of exactly
\* the samples that tick produced, at most one per feed name, by descending
\* score, samples of equal score in the order bitcoin, ethereum,
\* wikipedia_edits.
C14_ScoresReplacedSorted ==
    (pc = "sleep" /\ raised = "none") =>
        /\ Len(scores) = Len(rows)
        /\ \A i \in DOMAIN rows : \E j \in DOMAIN scores : scores[j] = rows[i]
        /\ \A i \in DOMAIN scores : scores[i].ts = tick
        /\ \A i, j \in DOMAIN scores :
              i < j =>
                  /\ scores[i].name /= scores[j].name
                  /\ scores[i].score >= scores[j].score
                  /\ scores[i].score = scores[j].score
                        => FeedRank(scores[i].name) < FeedRank(scores[j].name)

\* A later tick replaced the snapshot; the sort moved the last feed to the
\* front and left two feeds of equal score in their order.
C14_Witness ==
    /\ pc = "sleep"
    /\ raised = "none"
    /\ tick > 1
    /\ Len(scores) = 3
    /\ scores[1].name = "wikipedia_edits"
    /\ scores[2].name = "bitcoin"
    /\ scores[2].score = scores[3].score

StoredSamplesOf(t) == SelectSeq(db.scores, LAMBDA r : r.ts = t)

StoredItemsOf(t) == SelectSeq(db.narratives, LAMBDA n : n.t = t)

\* In every state the store holds of the current tick either nothing or the
\* whole batch; a completed tick left the whole batch, a failed one nothing.
C15_AllOrNothing ==
    /\ \/ StoredSamplesOf(tick) = <<>> /\ StoredItemsOf(tick) = <<>>
       \/ StoredSamplesOf(tick) = rows /\ StoredItemsOf(tick) = narr
    /\ (pc = "sleep" /\ raised = "none") => StoredSamplesOf(tick) = rows
    /\ raised /= "none" => StoredSamplesOf(tick) = <<>>

\* The two tables change in one step, by the whole batch of the tick, and
\* what earlier ticks stored stays.
C15_BatchStep ==
    <<db.scores, db.narratives>>' /= <<db.scores, db.narratives>> =>
        /\ db'.scores = db.scores \o rows
        /\ db'.narratives = db.narratives \o narr
        /\ \A i \in DOMAIN rows : rows[i].ts = tick
        /\ \A i \in DOMAIN narr : narr[i].t = tick

\* C15: the samples and the items of a tick are persisted as one batch: after
\* any tick, completed or failed, the store contains all of them or none.
C15_PersistedAsOneBatch == [](C15_AllOrNothing) /\ [][C15_BatchStep]_vars

\* A tick that produced samples and accepted an item failed at the store:
\* nothing of it is stored, next to the whole batch of an earlier tick.
C15_Witness ==
    /\ pc = "sleep"
    /\ raised = "persist"
    /\ narr /= <<>>
    /\ rows /= <<>> /\ rows[1].ts = tick
    /\ StoredSamplesOf(tick) = <<>>
    /\ StoredItemsOf(tick) = <<>>
    /\ Len(StoredSamplesOf(tick - 1)) >= 2
    /\ StoredItemsOf(tick - 1) /= <<>>

SeriesOf(name) == IF name = "wikipedia_edits" THEN wiki_vals ELSE prices[name]

AllEqual(s) == \A i, j \in DOMAIN s : s[i] = s[j]

\* n^2 times the population variance of s.
Spread(s) == Len(s) * SumSq(s) - SumSeq(s) * SumSeq(s)

\* The population standard deviation of s is below m, is above m.
StdevBelow(s, m) == m * Len(s) >= 46000 \/ Spread(s) < (m * Len(s)) * (m * Len(s))

StdevAbove(s, m) == m * Len(s) < 46000 /\ Spread(s) > (m * Len(s)) * (m * Len(s))

\* C16: for every non-empty series the trust calc_stats returns, rounded to
\* three decimals, is strictly greater than 0 and at most 1, and it is 1
\* exactly when all elements of the series are equal.
C16_TrustInUnitInterval ==
    pc = "persist" =>
        \A i \in DOMAIN rows :
            LET s == SeriesOf(rows[i].name)
            IN  s /= <<>> =>
                    /\ rows[i].trust > 0
                    /\ rows[i].trust <= Milli
                    /\ rows[i].trust = Milli <=> AllEqual(s)

\* C16, amended: for every non-empty series of integers the rounded trust is
\* at least 0 and at most 1, it is 1 exactly when all elements are equal, it
\* is greater than 0 when the standard deviation is below 1999, and it is 0
\* when the standard deviation is above 1999.
C16_RoundedTrust ==
    pc = "persist" =>
        \A i \in DOMAIN rows :
            LET s == SeriesOf(rows[i].name)
            IN  s /= <<>> =>
                    /\ rows[i].trust >= 0
                    /\ rows[i].trust <= Milli
                    /\ rows[i].trust = Milli <=> AllEqual(s)
                    /\ StdevBelow(s, 2 * Milli - 1) => rows[i].trust > 0
                    /\ StdevAbove(s, 2 * Milli - 1) => rows[i].trust = 0

\* The sample of a series with a large spread carries trust 0.000, next to
\* samples of constant series with trust 1.000.
C16_Witness ==
    /\ pc = "persist"
    /\ Len(rows) = 3
    /\ Len(wiki_vals) >= 2
    /\ rows[3].trust = 0
    /\ rows[1].trust = Milli /\ prices["bitcoin"] /= <<>>

Committed(type) ==
    IF type = "scores" THEN {db.scores[i] : i \in DOMAIN db.scores}
    ELSE {db.narratives[i] : i \in DOMAIN db.narratives}

AllCommitted(type, data) ==
    LET stored == Committed(type)
    IN  \A i \in DOMAIN data : data[i] \in stored

\* Whatever a snapshot, the latest fanout, a subscriber channel, a stream
\* event or a route response shows is in the durable store.
C17_VisibleIsCommitted ==
    /\ AllCommitted("scores", scores)
    /\ AllCommitted("narratives", narratives)
    /\ sent /= <<>> => AllCommitted(sent[Len(sent)].type, sent[Len(sent)].data)
    /\ \A q \in Q :
          /\ \A i \in DOMAIN queues[q] : AllCommitted(queues[q][i].type, queues[q][i].data)
          /\ \A i \in DOMAIN events[q] :
                AllCommitted(events[q][i].data.type, events[q][i].data.data)
    /\ rd.route \in {"scores", "narratives"} => AllCommitted(rd.route, rd.data)

\* The store does not change in the step that replaces a snapshot or fans
\* out, and a fanout carries the snapshot as that step leaves it.
C17_PublishStep ==
    (scores' /= scores \/ narratives' /= narratives \/ sent' /= sent) =>
        /\ db' = db
        /\ txn = NoTxn
        /\ sent' = Append(sent, sent'[Len(sent')])
        /\ sent'[Len(sent')].data =
              (IF sent'[Len(sent')].type = "scores" THEN scores' ELSE narratives')

\* C17: within a tick the order is persist, snapshot replace, fanout: every
\* sample or item visible in a snapshot or put on a subscriber's channel was
\* committed to the store before it became visible.
C17_CommittedBeforeVisible == [](C17_VisibleIsCommitted) /\ [][C17_PublishStep]_vars

\* Samples and items are in both snapshots, on a channel and in stream events.
C17_Witness ==
    /\ scores /= <<>>
    /\ narratives /= <<>>
    /\ Len(sent) >= 3
    /\ \E q \in Q : \E i \in DOMAIN events[q] : events[q][i].data.type = "narratives"
    /\ \E q \in Q : queues[q] /= <<>>

\* The tick whose fanout produced payload p.
TickOf(p) ==
    IF p.data = <<>> THEN 0
    ELSE IF p.type = "scores" THEN p.data[1].ts
    ELSE p.data[Len(p.data)].t

\* When a tick has completed, its fanouts are the last ones made: one of the
\* scores and, after it, one of the narratives if the tick accepted items,
\* none otherwise.
C18_FanoutsOfTick ==
    (pc = "sleep" /\ raised = "none") =>
        LET k == Len(sent)
        IN  IF narr = <<>>
            THEN /\ k >= 1
                 /\ sent[k].type = "scores" /\ TickOf(sent[k]) = tick
                 /\ k >= 2 => TickOf(sent[k - 1]) < tick
            ELSE /\ k >= 2
                 /\ sent[k].type = "narratives" /\ TickOf(sent[k]) = tick
                 /\ sent[k - 1].type = "scores" /\ TickOf(sent[k - 1]) = tick
                 /\ k >= 3 => TickOf(sent[k - 2]) < tick

\* The i-th event of a session carries the i-th payload fanned out to it.
C18_EventPerMessage ==
    \A q \in Q :
        /\ Len(events[q]) <= Len(sent) - regAt[q]
        /\ \A i \in DOMAIN events[q] :
              events[q][i] = [event |-> "update", data |-> sent[regAt[q] + i]]

\* A session emits one event at a time, for the message at the head of its
\* channel, which that takes off the channel.
C18_EventStep ==
    \A q \in Q :
        events'[q] /= events[q] =>
            /\ queues[q] /= <<>>
            /\ events'[q] = Append(events[q], [event |-> "update", data |-> Head(queues[q])])
            /\ queues'[q] = Tail(queues[q])

\* C18: a tick that completes without an exception performs exactly one
\* scores fanout, followed by exactly one narratives fanout if and only if
\* it accepted at least one item; a session emits exactly one stream event
\* per message fanned out to it.
C18_OneFanoutOneEvent ==
    [](C18_FanoutsOfTick /\ C18_EventPerMessage) /\ [][C18_EventStep]_vars

\* A tick that accepted items has completed, and a session registered before
\* it has emitted both messages; so has a tick that accepted none.
C18_Witness ==
    /\ pc = "sleep"
    /\ raised = "none"
    /\ narr = <<>>
    /\ Len(sent) = 3
    /\ sent[2].type = "narratives"
    /\ \E q \in Q : regAt[q] = 0 /\ Len(events[q]) = 3

AcceptedOf(s, t) ==
    Cardinality({i \in DOMAIN accepted : accepted[i].source = s /\ accepted[i].t = t})

ItemsOf(items, s, t) ==
    Cardinality({i \in DOMAIN items : items[i].source = s /\ items[i].t = t})

\* The identifier was accepted, and every item its source had accepted in
\* that tick is in the store and went into the narratives snapshot.
Kept(s, id) ==
    \E i \in DOMAIN accepted :
        /\ accepted[i].source = s
        /\ accepted[i].key = id
        /\ ItemsOf(db.narratives, s, accepted[i].t) = AcceptedOf(s, accepted[i].t)
        /\ ItemsOf(published, s, accepted[i].t) = AcceptedOf(s, accepted[i].t)

\* C19: at every tick boundary every identifier in a seen-set belongs to an
\* item that was committed to the store and appended to the narratives
\* snapshot: an accepted item is never lost, also when the tick that
\* accepted it fails in a later step.
C19_AcceptedNeverLost ==
    pc = "sleep" =>
        /\ \A id \in hn_seen : Kept("HackerNews", id)
        /\ \A id \in reddit_seen : Kept("Reddit/technology", id)

\* Once a tick has raised, nothing of it is in a snapshot, in a fanout or on
\* a channel, and its loop_error incident is logged.
C20_NothingOfFailedTick ==
    raised /= "none" =>
        /\ \A i \in DOMAIN scores : scores[i].ts < tick
        /\ \A i \in DOMAIN narratives : narratives[i].t < tick
        /\ \A i \in DOMAIN sent : TickOf(sent[i]) < tick
        /\ \A q \in Q : \A i \in DOMAIN queues[q] : TickOf(queues[q][i]) < tick
        /\ \E i \in DOMAIN logged :
              logged[i].kind = "loop_error" /\ logged[i].t = tick

\* From its raise to its end a tick changes neither snapshot and fans
\* nothing out; the worker (the steps that move pc) changes the registry and
\* the channels only in a fanout, so a tick without fanout leaves them as the
\* sessions made them; the incidents tail changes at the raise.
C20_FailedTickStep ==
    /\ raised' /= "none" =>
          /\ scores' = scores
          /\ narratives' = narratives
          /\ sent' = sent
    /\ (raised = "none" /\ raised' /= "none") =>
          incidents' = Append(incidents, Incident("loop_error", raised'))
    /\ (pc' /= pc /\ sent' = sent) => (clients' = clients /\ queues' = queues)

\* C20: a tick that raises before its batch is committed leaves the scores
\* snapshot, the narratives snapshot, the subscriber registry and every
\* subscriber's channel unchanged and performs no fanout; of the published
\* state only the incidents tail changes.
C20_FailedTickPublishesNothing ==
    [](C20_NothingOfFailedTick) /\ [][C20_FailedTickStep]_vars

\* The second tick failed at the persist step while a subscriber, registered
\* during the first, still has that tick's messages on its channel.
C20_Witness ==
    /\ pc = "sleep"
    /\ raised = "persist"
    /\ tick = 2
    /\ rows /= <<>> /\ rows[1].ts = tick
    /\ scores /= <<>> /\ scores[1].ts = 1
    /\ narratives /= <<>>
    /\ Len(sent) = 2
    /\ clients /= {}
    /\ \E q \in clients : Len(queues[q]) = 2
    /\ incidents /= <<>> /\ incidents[Len(incidents)].kind = "loop_error"

====
